---- MODULE Spec2Model ----
(***************************************************************************)
(* Model of util/validate-jar-language-level.py: main(argv) and            *)
(* _invalid_language_level(jar_file, expected_language_level).             *)
(*                                                                         *)
(* Python strings are sequences of one-character strings, so endswith,     *)
(* startswith, slicing, format and split are computed as Python computes   *)
(* them.  The archive contents and the disassembler's answers are the      *)
(* environment: they are chosen when the program first reads them and      *)
(* stay fixed afterwards.                                                  *)
(***************************************************************************)
EXTENDS Integers, Sequences, FiniteSets, TLC

\* ---------------------------------------------------------------- bounds
MaxArgs == 3        \* user arguments on the command line: 0..MaxArgs
MaxEntries == 3     \* entries of the scanned archive: 0..MaxEntries

\* ------------------------------------------------------- string literals
DOT_JAR == <<".", "j", "a", "r">>
DOT_AAR == <<".", "a", "a", "r">>
DOT_CLASS == <<".", "c", "l", "a", "s", "s">>
SPI_SHADED == <<"d", "a", "g", "g", "e", "r", "/", "s", "p", "i", "/", "i", "n", "t", "e", "r", "n", "a", "l", "/", "s", "h", "a", "d", "e", "d", "/">>
GRPC_SHADED == <<"d", "a", "g", "g", "e", "r", "/", "g", "r", "p", "c", "/", "s", "h", "a", "d", "e", "d", "/">>
CLASSES_JAR == <<"c", "l", "a", "s", "s", "e", "s", ".", "j", "a", "r">>
JAVAP_CP == <<"j", "a", "v", "a", "p", " ", "-", "c", "p", " ">>
DASH_V == <<" ", "-", "v", " ">>
COLON_SP == <<":", " ">>
OPT_CP == <<"-", "c", "p">>
Whitespace == {" "}

\* ------------------------------------------------------------ input pools
SCRIPT == <<"v", ".", "p", "y">>
LIB_JAR == <<"l", "i", "b", ".", "j", "a", "r">>
MY_LIB_JAR == <<"m", "y", " ", "l", "i", "b", ".", "j", "a", "r">>
LIB_AAR == <<"l", "i", "b", ".", "a", "a", "r">>
LIB_ZIP == <<"l", "i", "b", ".", "z", "i", "p">>
V52 == <<"5", "2">>
V55 == <<"5", "5">>
Y_CLASS == <<"c", "o", "m", "/", "x", "/", "Y", ".", "c", "l", "a", "s", "s">>
Z_CLASS == <<"c", "o", "m", "/", "x", "/", "Z", ".", "c", "l", "a", "s", "s">>
YSP_CLASS == <<"c", "o", "m", "/", "x", "/", "Y", " ", ".", "c", "l", "a", "s", "s">>
SPI_CLASS == <<"d", "a", "g", "g", "e", "r", "/", "s", "p", "i", "/", "i", "n", "t", "e", "r", "n", "a", "l", "/", "s", "h", "a", "d", "e", "d", "/", "A", ".", "c", "l", "a", "s", "s">>
GRPC_CLASS == <<"d", "a", "g", "g", "e", "r", "/", "g", "r", "p", "c", "/", "s", "h", "a", "d", "e", "d", "/", "B", ".", "c", "l", "a", "s", "s">>
DIR_ENTRY == <<"c", "o", "m", "/", "x", "/">>
MANIFEST == <<"M", "E", "T", "A", "-", "I", "N", "F", "/", "M", "A", "N", "I", "F", "E", "S", "T", ".", "M", "F">>
TMP == <<"/", "t", "m", "p", "/", "t">>

JarPaths == {LIB_JAR, MY_LIB_JAR}
Paths == JarPaths \cup {LIB_AAR, LIB_ZIP}
Levels == {V52, V55}
EntryNames == {Y_CLASS, Z_CLASS, YSP_CLASS, SPI_CLASS, GRPC_CLASS, DIR_ENTRY, MANIFEST}

SeqsUpTo(S, n) == UNION {[1..k -> S] : k \in 0..n}
\* sys.argv: the script, then a path, then level tokens
Argvs == {<<SCRIPT>> \o a : a \in {s \in SeqsUpTo(Paths \cup Levels, MaxArgs) :
                                     \A k \in 1..Len(s) : s[k] \in Paths <=> k = 1}}
Archives == SeqsUpTo(EntryNames, MaxEntries)

\* ------------------------------------------------------ Python str methods
endswith(s, suffix) ==
    /\ Len(s) >= Len(suffix)
    /\ SubSeq(s, Len(s) - Len(suffix) + 1, Len(s)) = suffix

startswith(s, prefix) ==
    /\ Len(s) >= Len(prefix)
    /\ SubSeq(s, 1, Len(prefix)) = prefix

\* str.split() with no separator: runs of whitespace separate the tokens and
\* no empty token is produced.
RECURSIVE splitAcc(_, _, _)
splitAcc(s, cur, acc) ==
    IF s = <<>>
    THEN IF cur = <<>> THEN acc ELSE Append(acc, cur)
    ELSE IF Head(s) \in Whitespace
         THEN splitAcc(Tail(s), <<>>, IF cur = <<>> THEN acc ELSE Append(acc, cur))
         ELSE splitAcc(Tail(s), Append(cur, Head(s)), acc)

split(s) == splitAcc(s, <<>>, <<>>)

\* variant: argv[:2], the slice taken from the wrong end
firstTwo(a) == IF Len(a) <= 2 THEN a ELSE SubSeq(a, 1, 2)

\* argv[-2:]
lastTwo(a) == IF Len(a) <= 2 THEN a ELSE SubSeq(a, Len(a) - 1, Len(a))

\* ------------------------------------------------------------ ignore_entry
ignore_entries_prefix == <<SPI_SHADED, GRPC_SHADED>>

\* variant: the loop returns after its first prefix
ignore_entry_first_prefix(filename) == startswith(filename, ignore_entries_prefix[1])

ignore_entry(filename) ==
    \E k \in 1..Len(ignore_entries_prefix) : startswith(filename, ignore_entries_prefix[k])

\* ZipInfo.is_dir(): the stored name ends in a slash
is_dir(filename) == filename # <<>> /\ filename[Len(filename)] = "/"

\* the condition of the if statement in the scan loop
eligible(filename) ==
    /\ ~is_dir(filename)
    /\ endswith(filename, DOT_CLASS)
    /\ ~ignore_entry(filename)

\* info.filename[:-6]
class_name(filename) == SubSeq(filename, 1, Len(filename) - 6)

\* 'javap -cp {0} -v {1}'.format(jar_file, info.filename[:-6]).split()
javap_cmd(path, filename) == split(JAVAP_CP \o path \o DASH_V \o class_name(filename))

\* variant: the version is left out of the record
entry_record_name_only(filename, version) == filename

\* '{0}: {1}'.format(info.filename, class_language_level)
entry_record(filename, version) == filename \o COLON_SP \o version

\* os.path.join(dirpath, 'classes.jar'), the return value of ZipFile.extract
extracted_path(dir) == dir \o <<"/">> \o CLASSES_JAR

\* ----------------------------------------------------------- disassembler
\* How the disassembler reads its argument vector: the token after -cp is
\* the class path, other tokens starting with "-" are flags, every other
\* token is a class to disassemble.
RECURSIVE javap_args(_, _)
javap_args(tokens, acc) ==
    IF tokens = <<>> THEN acc
    ELSE IF Head(tokens) = OPT_CP /\ Len(tokens) >= 2
         THEN javap_args(Tail(Tail(tokens)), [acc EXCEPT !.cp = <<tokens[2]>>])
         ELSE IF Head(tokens)[1] = "-"
              THEN javap_args(Tail(tokens), acc)
              ELSE javap_args(Tail(tokens), [acc EXCEPT !.classes = Append(@, Head(tokens))])

javap_parse(cmd) == javap_args(Tail(cmd), [cp |-> <<>>, classes |-> <<>>])

\* A finished disassembler process: exit code, and the list that
\* language_level_pattern.findall(stdout) yields on its standard output.
MatchLists == {<<>>, <<V52>>, <<V55>>, <<V52, V55>>}
ProcessResults == [returncode : {0, 1}, matches : MatchLists]
Failed == [returncode |-> 1, matches |-> <<>>]

\* What the disassembler can answer to a request for the classes `classes`
\* of an archive with the entries `entries`: it fails when it is given no
\* class or a class the archive has no entry for; one class that is found
\* prints any number of "major version" lines (normally one); several
\* classes print at least one line each.
javap_results(classes, entries) ==
    IF classes = <<>> \/ \E k \in 1..Len(classes) :
                            \A e \in 1..Len(entries) : entries[e] # classes[k] \o DOT_CLASS
    THEN {Failed}
    ELSE IF Len(classes) = 1
         THEN {r \in ProcessResults : r.returncode = 0 \/ r.matches = <<>>}
         ELSE {r \in ProcessResults : (r.returncode = 0 => Len(r.matches) >= 2)
                                      /\ (r.returncode # 0 => r.matches = <<>>)}

\* line 72, check=True: subprocess.run raises on a non-zero exit status
check_raises(output1) == output1.returncode # 0

\* variant: several matches are accepted and the first is used
some_match(matches) == Len(matches) >= 1

\* line 75, negated: the condition under which the scan goes on
one_match(matches) == Len(matches) = 1

\* variant: the comparison is inverted
level_equals(class_language_level, expected_language_level) ==
    class_language_level = expected_language_level

\* line 79
level_differs(class_language_level, expected_language_level) ==
    class_language_level # expected_language_level

\* ------------------------------------------------------------------ state
VARIABLES
    pc,                      \* position of the run in main / the scan
    argv,                    \* sys.argv
    jar_file,                \* main: first of argv[-2:]
    java_language_level,     \* main: second of argv[-2:]
    dirpath,                 \* main: the scratch directory, <<>> when none
    tmpdir,                  \* file system: "none", "exists", "deleted"
    scan_path,               \* jar_file parameter of _invalid_language_level
    infolist,                \* zip_file.infolist() of the scanned archive
    i,                       \* entries of infolist already processed
    invalid_entries,         \* list of 'entry: version' records
    unique_language_levels,  \* set of versions seen
    progress,                \* arguments of the last progress line printed
    opened,                  \* archives opened so far, in order
    calls,                   \* disassembler invocations so far, in order
    outcome,                 \* how the run ended
    archive,                 \* environment: contents of the jar, once read
    javap_out,               \* environment: disassembler answers given so far
    run,                     \* 1, or 2 for the second run of a paired check
    first                    \* result of the first run of a paired check

vars == <<pc, argv, jar_file, java_language_level, dirpath, tmpdir, scan_path,
          infolist, i, invalid_entries, unique_language_levels, progress,
          opened, calls, outcome, archive, javap_out, run, first>>

runVars == <<jar_file, java_language_level, dirpath, tmpdir, scan_path,
             infolist, i, invalid_entries, unique_language_levels, progress,
             opened, calls>>

NoOutcome == [kind |-> "running", file |-> <<>>, level |-> <<>>, entries |-> <<>>]
Raised(kind, file) == [kind |-> kind, file |-> file, level |-> <<>>, entries |-> <<>>]
NoProgress == [n |-> 0, of |-> 0, expected |-> <<>>, found |-> {}]
NoFirst == [aar |-> FALSE, kind |-> "running", classes |-> <<>>, entries |-> <<>>]

InitRun ==
    /\ pc = "main"
    /\ jar_file = <<>>
    /\ java_language_level = <<>>
    /\ dirpath = <<>>
    /\ tmpdir = "none"
    /\ scan_path = <<>>
    /\ infolist = <<>>
    /\ i = 0
    /\ invalid_entries = <<>>
    /\ unique_language_levels = {}
    /\ progress = NoProgress
    /\ opened = <<>>
    /\ calls = <<>>
    /\ outcome = NoOutcome

Init ==
    /\ argv \in Argvs
    /\ InitRun
    /\ archive = [known |-> FALSE, entries |-> <<>>]
    /\ javap_out = {}
    /\ run = 1
    /\ first = NoFirst

\* ------------------------------------------------------------------- main
\* lines 16-19
Main_TooManyArgs ==
    /\ pc = "main"
    /\ Len(argv) > 3
    /\ outcome' = Raised("ArgCountError", <<>>)
    /\ pc' = "done"
    /\ UNCHANGED <<argv, runVars, archive, javap_out, run, first>>

\* line 21, when argv[-2:] has fewer than two elements: the unpacking raises
Main_UnpackError ==
    /\ pc = "main"
    /\ Len(argv) <= 3
    /\ Len(lastTwo(argv)) # 2
    /\ outcome' = Raised("UnpackError", <<>>)
    /\ pc' = "done"
    /\ UNCHANGED <<argv, runVars, archive, javap_out, run, first>>

\* line 21
Main_Unpack ==
    /\ pc = "main"
    /\ Len(argv) <= 3
    /\ Len(lastTwo(argv)) = 2
    /\ jar_file' = lastTwo(argv)[1]
    /\ java_language_level' = lastTwo(argv)[2]
    /\ pc' = "dispatch"
    /\ UNCHANGED <<argv, dirpath, tmpdir, scan_path, infolist, i, invalid_entries,
                   unique_language_levels, progress, opened, calls, outcome,
                   archive, javap_out, run, first>>

\* lines 22-23: the call of _invalid_language_level(jar_file, ...)
Main_Jar ==
    /\ pc = "dispatch"
    /\ endswith(jar_file, DOT_JAR)
    /\ scan_path' = jar_file
    /\ pc' = "open"
    /\ UNCHANGED <<argv, jar_file, java_language_level, dirpath, tmpdir, infolist, i,
                   invalid_entries, unique_language_levels, progress, opened,
                   calls, outcome, archive, javap_out, run, first>>

\* lines 24-25: tempfile.mkdtemp()
Main_Aar ==
    /\ pc = "dispatch"
    /\ ~endswith(jar_file, DOT_JAR)
    /\ endswith(jar_file, DOT_AAR)
    /\ dirpath' = TMP
    /\ tmpdir' = "exists"
    /\ pc' = "extract"
    /\ UNCHANGED <<argv, jar_file, java_language_level, scan_path, infolist, i,
                   invalid_entries, unique_language_levels, progress, opened,
                   calls, outcome, archive, javap_out, run, first>>

\* lines 30-31
Main_InvalidJar ==
    /\ pc = "dispatch"
    /\ ~endswith(jar_file, DOT_JAR)
    /\ ~endswith(jar_file, DOT_AAR)
    /\ outcome' = Raised("InvalidJarError", jar_file)
    /\ pc' = "done"
    /\ UNCHANGED <<argv, runVars, archive, javap_out, run, first>>

\* lines 26-28: the outer archive is opened and classes.jar extracted
Main_Extract ==
    /\ pc = "extract"
    /\ opened' = Append(opened, jar_file)
    /\ scan_path' = extracted_path(dirpath)
    /\ pc' = "open"
    /\ UNCHANGED <<argv, jar_file, java_language_level, dirpath, tmpdir, infolist, i,
                   invalid_entries, unique_language_levels, progress, calls,
                   outcome, archive, javap_out, run, first>>

\* lines 26-27, when the outer archive has no entry classes.jar (or cannot
\* be read): the exception leaves main before line 29
Main_ExtractError ==
    /\ pc = "extract"
    /\ opened' = Append(opened, jar_file)
    /\ outcome' = Raised("ExtractError", jar_file)
    /\ pc' = "done"
    /\ UNCHANGED <<argv, jar_file, java_language_level, dirpath, tmpdir, scan_path,
                   infolist, i, invalid_entries, unique_language_levels, progress,
                   calls, archive, javap_out, run, first>>

\* -------------------------------------------------- _invalid_language_level
\* lines 44-48: the archive is opened and its entry list read
Scan_Open ==
    /\ pc = "open"
    /\ opened' = Append(opened, scan_path)
    /\ \E entries \in (IF archive.known THEN {archive.entries} ELSE Archives) :
          /\ archive' = [known |-> TRUE, entries |-> entries]
          /\ infolist' = entries
    /\ invalid_entries' = <<>>
    /\ unique_language_levels' = {}
    /\ i' = 0
    /\ pc' = "scan"
    /\ UNCHANGED <<argv, jar_file, java_language_level, dirpath, tmpdir, scan_path,
                   progress, calls, outcome, javap_out, run, first>>

\* the entry of the current iteration, and the progress line of lines 51-61
info == infolist[i + 1]
progress_line == [n |-> i + 1, of |-> Len(infolist),
                  expected |-> java_language_level,
                  found |-> unique_language_levels]

\* lines 62-66, condition false: the entry is skipped
Scan_Skip ==
    /\ pc = "scan"
    /\ i < Len(infolist)
    /\ ~eligible(info)
    /\ progress' = progress_line
    /\ i' = i + 1
    /\ UNCHANGED <<pc, argv, jar_file, java_language_level, dirpath, tmpdir, scan_path,
                   infolist, invalid_entries, unique_language_levels, opened,
                   calls, outcome, archive, javap_out, run, first>>

\* lines 67-73: subprocess.run(cmd.split(), ...).  The class path resolves
\* to the scanned archive only when it reaches the disassembler as the one
\* token scan_path; the same request on the same archive gets the same answer.
cmd == javap_cmd(scan_path, info)
answers ==
    LET a == javap_parse(cmd) IN
    IF a.cp # <<scan_path>> THEN {Failed}
    ELSE IF \E m \in javap_out : m.classes = a.classes
         THEN {m.result : m \in {x \in javap_out : x.classes = a.classes}}
         ELSE javap_results(a.classes, infolist)

Scan_Eligible ==
    /\ pc = "scan"
    /\ i < Len(infolist)
    /\ eligible(info)

Scan_Run(output1) ==
    /\ progress' = progress_line
    /\ calls' = Append(calls, [entry |-> i + 1, cmd |-> cmd, result |-> output1])
    /\ javap_out' = IF javap_parse(cmd).cp = <<scan_path>>
                    THEN javap_out \cup {[classes |-> javap_parse(cmd).classes,
                                          result |-> output1]}
                    ELSE javap_out

\* line 72, check=True: a non-zero exit status raises CalledProcessError
Scan_ProcessError ==
    /\ Scan_Eligible
    /\ \E output1 \in answers :
        /\ Scan_Run(output1)
        /\ check_raises(output1)
        /\ outcome' = Raised("ProcessError", info)
        /\ pc' = "done"
        /\ UNCHANGED <<argv, jar_file, java_language_level, dirpath, tmpdir, scan_path,
                       infolist, i, invalid_entries, unique_language_levels,
                       opened, archive, run, first>>

\* lines 74-76
Scan_ParseError ==
    /\ Scan_Eligible
    /\ \E output1 \in answers :
        /\ Scan_Run(output1)
        /\ ~check_raises(output1)
        /\ ~one_match(output1.matches)
        /\ outcome' = Raised("ParseError", info)
        /\ pc' = "done"
        /\ UNCHANGED <<argv, jar_file, java_language_level, dirpath, tmpdir, scan_path,
                       infolist, i, invalid_entries, unique_language_levels,
                       opened, archive, run, first>>

\* lines 77-82
Scan_Record ==
    /\ Scan_Eligible
    /\ \E output1 \in answers :
        /\ Scan_Run(output1)
        /\ ~check_raises(output1)
        /\ one_match(output1.matches)
        /\ LET class_language_level == output1.matches[1] IN
              /\ unique_language_levels' = unique_language_levels \cup {class_language_level}
              /\ invalid_entries' =
                    IF level_differs(class_language_level, java_language_level)
                    THEN Append(invalid_entries, entry_record(info, class_language_level))
                    ELSE invalid_entries
        /\ i' = i + 1
        /\ UNCHANGED <<pc, argv, jar_file, java_language_level, dirpath, tmpdir,
                       scan_path, infolist, opened, outcome, archive, run, first>>

\* line 83: the loop is over and the list is returned to main
Scan_Return ==
    /\ pc = "scan"
    /\ i = Len(infolist)
    /\ pc' = IF dirpath # <<>> THEN "rmtree" ELSE "report"
    /\ UNCHANGED <<argv, runVars, outcome, archive, javap_out, run, first>>

\* variant: main goes on without removing the scratch directory
Main_Rmtree_skipped ==
    /\ pc = "rmtree"
    /\ pc' = "report"
    /\ UNCHANGED <<argv, jar_file, java_language_level, dirpath, tmpdir, scan_path,
                   infolist, i, invalid_entries, unique_language_levels, progress,
                   opened, calls, outcome, archive, javap_out, run, first>>

\* line 29: shutil.rmtree(dirpath)
Main_Rmtree ==
    /\ pc = "rmtree"
    /\ tmpdir' = "deleted"
    /\ pc' = "report"
    /\ UNCHANGED <<argv, jar_file, java_language_level, dirpath, scan_path, infolist, i,
                   invalid_entries, unique_language_levels, progress, opened,
                   calls, outcome, archive, javap_out, run, first>>

\* '\n    '.join(invalid_entries)
NL_INDENT == <<"\n", " ", " ", " ", " ">>
\* variant: only the first element is kept
join_first(sep, list) == IF list = <<>> THEN <<>> ELSE list[1]

RECURSIVE join(_, _)
join(sep, list) ==
    IF list = <<>> THEN <<>>
    ELSE IF Len(list) = 1 THEN list[1]
    ELSE list[1] \o sep \o join(sep, Tail(list))

\* lines 33-39: the list is not empty
Main_RaiseInvalid ==
    /\ pc = "report"
    /\ invalid_entries # <<>>
    /\ outcome' = [kind |-> "ValidationError", file |-> jar_file,
                   level |-> java_language_level,
                   entries |-> join(NL_INDENT, invalid_entries)]
    /\ pc' = "done"
    /\ UNCHANGED <<argv, runVars, archive, javap_out, run, first>>

\* line 33, the list is empty: main returns
Main_Return ==
    /\ pc = "report"
    /\ invalid_entries = <<>>
    /\ outcome' = Raised("Completed", <<>>)
    /\ pc' = "done"
    /\ UNCHANGED <<argv, runVars, archive, javap_out, run, first>>

Next ==
    \/ Main_TooManyArgs
    \/ Main_UnpackError
    \/ Main_Unpack
    \/ Main_Jar
    \/ Main_Aar
    \/ Main_InvalidJar
    \/ Main_Extract
    \/ Main_ExtractError
    \/ Scan_Open
    \/ Scan_Skip
    \/ Scan_ProcessError
    \/ Scan_ParseError
    \/ Scan_Record
    \/ Scan_Return
    \/ Main_Rmtree
    \/ Main_RaiseInvalid
    \/ Main_Return

Spec == Init /\ [][Next]_vars

\* ------------------------------------------------------------ paired runs
\* lines 97-98, a second invocation: after a run on an .aar whose
\* classes.jar was extracted, main is run again on the same jar stored
\* under a .jar path, with the same level and the same disassembler.
classes_passed == [k \in 1..Len(calls) |-> javap_parse(calls[k].cmd).classes]

Restart ==
    /\ run = 1
    /\ pc = "done"
    /\ endswith(jar_file, DOT_AAR)
    /\ archive.known
    /\ first' = [aar |-> TRUE, kind |-> outcome.kind, classes |-> classes_passed,
                 entries |-> invalid_entries]
    /\ run' = 2
    /\ \E path \in JarPaths : argv' = <<SCRIPT, path, java_language_level>>
    /\ pc' = "main"
    /\ jar_file' = <<>>
    /\ java_language_level' = <<>>
    /\ dirpath' = <<>>
    /\ tmpdir' = "none"
    /\ scan_path' = <<>>
    /\ infolist' = <<>>
    /\ i' = 0
    /\ invalid_entries' = <<>>
    /\ unique_language_levels' = {}
    /\ progress' = NoProgress
    /\ opened' = <<>>
    /\ calls' = <<>>
    /\ outcome' = NoOutcome
    /\ UNCHANGED <<archive, javap_out>>

NextPair == Next \/ Restart

SpecPair == Init /\ [][NextPair]_vars

\* ================================================================= claims
Contains(s, sub) ==
    \E k \in 0..(Len(s) - Len(sub)) : SubSeq(s, k + 1, k + Len(sub)) = sub

LastFour(s) == IF Len(s) < 4 THEN s ELSE SubSeq(s, Len(s) - 3, Len(s))
IsJarRun == LastFour(jar_file) = <<".", "j", "a", "r">>
IsAarRun == LastFour(jar_file) = <<".", "a", "a", "r">>

\* a disassembler call that succeeded with exactly one version match
GoodCall(c) == c.result.returncode = 0 /\ Len(c.result.matches) = 1
AllCallsGood == \A k \in 1..Len(calls) : GoodCall(calls[k])
Mismatch(c) == GoodCall(c) /\ c.result.matches[1] # java_language_level
Match(c) == GoodCall(c) /\ c.result.matches[1] = java_language_level
RecordOf(c) == infolist[c.entry] \o <<":", " ">> \o c.result.matches[1]

\* the entries the scan must leave alone, stated on the name alone
Excluded(name) ==
    \/ name[Len(name)] = "/"
    \/ Len(name) < 6
    \/ SubSeq(name, Len(name) - 5, Len(name)) # <<".", "c", "l", "a", "s", "s">>
    \/ (Len(name) >= Len(SPI_SHADED) /\ SubSeq(name, 1, Len(SPI_SHADED)) = SPI_SHADED)
    \/ (Len(name) >= Len(GRPC_SHADED) /\ SubSeq(name, 1, Len(GRPC_SHADED)) = GRPC_SHADED)

C2_AllMatchCompletes ==
    (/\ pc = "done"
     /\ IsJarRun
     /\ \A k \in 1..Len(calls) : Match(calls[k]))
    => outcome.kind = "Completed"

C2_Witness ==
    /\ pc = "done"
    /\ IsJarRun
    /\ outcome.kind = "Completed"
    /\ Len(calls) >= 2
    /\ Len(infolist) > Len(calls)

\* C3: at every point of every run, an entry that is a directory, does not
\* end in .class or lies under an ignored prefix has not been passed to the
\* disassembler, has no record in the invalid-entries list or the error
\* message, and is not the entry a parse or process error is raised for.
C3_ExcludedNeverProcessed ==
    \A e \in 1..Len(infolist) :
        Excluded(infolist[e]) =>
            /\ \A k \in 1..Len(calls) : calls[k].entry # e
            /\ \A k \in 1..Len(invalid_entries) :
                  ~Contains(invalid_entries[k], infolist[e] \o <<":", " ">>)
            /\ ~Contains(outcome.entries, infolist[e] \o <<":", " ">>)
            /\ outcome.kind \in {"ProcessError", "ParseError"} => outcome.file # infolist[e]

C3_Witness ==
    /\ pc = "done"
    /\ outcome.kind = "ValidationError"
    /\ \E e \in 1..Len(infolist) : infolist[e] = GRPC_CLASS
    /\ \E e \in 1..Len(infolist) : infolist[e] \in {SPI_CLASS, DIR_ENTRY, MANIFEST}

\* C4: a run on an .aar whose classes.jar is the jar J, and a run on J given
\* as a .jar, pass the same sequence of classes to the disassembler, end the
\* same way and produce the same list of mismatch records.
C4_AarAsJar ==
    (run = 2 /\ pc = "done" /\ first.aar)
    => /\ classes_passed = first.classes
       /\ outcome.kind = first.kind
       /\ invalid_entries = first.entries

\* C5: with an input filename that ends in neither .jar nor .aar, no archive
\* is opened, no scratch directory is created and no disassembler is
\* started, and the run ends in the invalid-input error naming the file.
C5_BadExtensionRejected ==
    (/\ Len(argv) = 3
     /\ LastFour(argv[2]) \notin {<<".", "j", "a", "r">>, <<".", "a", "a", "r">>})
    => /\ opened = <<>>
       /\ tmpdir = "none"
       /\ calls = <<>>
       /\ pc \in {"main", "dispatch", "done"}
       /\ pc = "done" => (outcome.kind = "InvalidJarError" /\ outcome.file = argv[2])

C5_Witness ==
    /\ pc = "done"
    /\ Len(argv) = 3
    /\ outcome.kind = "InvalidJarError"
    /\ outcome.file = LIB_ZIP

\* C6: an invocation with a number of user arguments other than two ends in
\* an error about the argument count without opening an archive or starting
\* a disassembler, and only an invocation with exactly two user arguments
\* reaches the extension check, with the first as path and the second as level.
C6_ExactlyTwoArguments ==
    /\ Len(argv) # 3 =>
          /\ pc \in {"main", "done"}
          /\ opened = <<>>
          /\ calls = <<>>
          /\ pc = "done" => outcome.kind \in {"ArgCountError", "UnpackError"}
    /\ pc \notin {"main", "done"} =>
          /\ Len(argv) = 3
          /\ jar_file = argv[2]
          /\ java_language_level = argv[3]

\* C7: a disassembler call that fails, or whose output has no or several
\* version matches, ends the run at once with that error: it is the last
\* call, the entry counter has not moved past its entry, every earlier call
\* was good, and no list of mismatches is reported.
C7_ErrorAbortsRun ==
    /\ \A k \in 1..(Len(calls) - 1) : GoodCall(calls[k])
    /\ (calls # <<>> /\ ~GoodCall(calls[Len(calls)])) =>
          /\ pc = "done"
          /\ outcome.kind = (IF calls[Len(calls)].result.returncode # 0
                             THEN "ProcessError" ELSE "ParseError")
          /\ outcome.file = infolist[calls[Len(calls)].entry]
          /\ outcome.entries = <<>>
          /\ i = calls[Len(calls)].entry - 1
          /\ \A k \in 1..Len(calls) : calls[k].entry <= calls[Len(calls)].entry
    /\ outcome.kind \in {"ProcessError", "ParseError"} =>
          (calls # <<>> /\ ~GoodCall(calls[Len(calls)]))

C7_Witness ==
    /\ pc = "done"
    /\ outcome.kind = "ParseError"
    /\ invalid_entries # <<>>
    /\ Len(calls) = 2
    /\ Len(calls[2].result.matches) = 2
    /\ calls[2].entry < Len(infolist)
    /\ ~Excluded(infolist[Len(infolist)])

\* C8: for an .aar input the scratch directory is deleted exactly when
\* extraction and scan finish without raising: it is gone when the run
\* completes and when the validation error is raised, and it still exists
\* when extraction, a disassembler call or version parsing raised; for any
\* other input no scratch directory is created.
C8_ScratchDirectory ==
    /\ ~IsAarRun => tmpdir = "none"
    /\ (IsAarRun /\ pc = "report") => tmpdir = "deleted"
    /\ (IsAarRun /\ pc = "done") =>
          /\ outcome.kind \in {"Completed", "ValidationError"} => tmpdir = "deleted"
          /\ outcome.kind \in {"ExtractError", "ProcessError", "ParseError"} => tmpdir = "exists"
          /\ outcome.kind \in {"Completed", "ValidationError", "ExtractError",
                               "ProcessError", "ParseError"}

C8_Witness ==
    /\ pc = "done"
    /\ IsAarRun
    /\ outcome.kind = "ValidationError"
    /\ tmpdir = "deleted"

\* C9: while no parse or process error has occurred, the disassembler has
\* been invoked exactly once for each eligible entry processed so far, in
\* archive order, as javap -cp <archive> -v <entry name minus .class>, and
\* the validation error is raised only after the last entry.
RECURSIVE EligibleUpTo(_)
EligibleUpTo(n) ==
    IF n = 0 THEN <<>>
    ELSE IF Excluded(infolist[n]) THEN EligibleUpTo(n - 1)
         ELSE Append(EligibleUpTo(n - 1), n)

C9_OnceEachInOrder ==
    outcome.kind \notin {"ProcessError", "ParseError"} =>
        /\ Len(calls) = Len(EligibleUpTo(i))
        /\ \A k \in 1..Len(calls) :
              /\ calls[k].entry = EligibleUpTo(i)[k]
              /\ calls[k].cmd = << <<"j", "a", "v", "a", "p">>, <<"-", "c", "p">>, scan_path,
                                   <<"-", "v">>,
                                   SubSeq(infolist[calls[k].entry], 1,
                                          Len(infolist[calls[k].entry]) - 6) >>
        /\ outcome.kind = "ValidationError" => i = Len(infolist)

\* C10: at every point of the scan the invalid-entries list is exactly the
\* records, in order, of the calls so far whose version differs from the
\* expected level, the set of distinct versions is exactly the versions
\* extracted so far, and the list is non-empty exactly when the set holds a
\* version other than the expected level.
RECURSIVE MismatchRecords(_)
MismatchRecords(n) ==
    IF n = 0 THEN <<>>
    ELSE IF Mismatch(calls[n]) THEN Append(MismatchRecords(n - 1), RecordOf(calls[n]))
         ELSE MismatchRecords(n - 1)

C10_ScanInvariant ==
    /\ invalid_entries = MismatchRecords(Len(calls))
    /\ unique_language_levels =
          {calls[k].result.matches[1] : k \in {j \in 1..Len(calls) : GoodCall(calls[j])}}
    /\ invalid_entries # <<>> <=>
          (\E v \in unique_language_levels : v # java_language_level)

C10_Witness ==
    /\ pc = "scan"
    /\ i = 3
    /\ Len(invalid_entries) = 1
    /\ unique_language_levels = {V52, V55}
====
